---- MODULE Spec2Model ----
(***************************************************************************)
(* Model of waybar-google-calendar-check (src/main.go): the `run` command  *)
(* (fetch today's events, sort them, select the next one, print a BarItem) *)
(* and the `setup` command (token check, refresh, authorization-code       *)
(* flow).                                                                  *)
(*                                                                         *)
(* Time is counted in whole minutes since the zero time of Go's time.Time  *)
(* (a UTC midnight).  An RFC3339 string is the record [wall, off]: the     *)
(* wall-clock reading and the UTC offset written in the string.            *)
(***************************************************************************)
EXTENDS Integers, Sequences, FiniteSets

VARIABLES
    cmd,        \* the subcommand cobra dispatched: "run" or "setup"
    pc,         \* position in the running command
    err,        \* the error the command returned ("nil" while running / on success)
    clock,      \* what time.Now() returns
    ticks,      \* how often the clock advanced (bounded)
    loc,        \* UTC offset of time.Local, in minutes
    tokenFile,  \* content of <config-dir>/token.json
    stored,     \* history: content of token.json when the command started
    token,      \* setup: the outer `token` variable (line 78)
    exToken,    \* setup: the inner `token` declared at line 95
    exErr,      \* setup: the inner `err` declared at line 95
    exchanges,  \* history: number of config.Exchange calls
    prompts,    \* history: number of fmt.Scan calls
    refreshes,  \* history: number of refresh requests sent to the token endpoint
    urlPrinted, \* history: whether the authorization URL was printed
    fromTime,   \* run: `from` (line 164)
    toTime,     \* run: `to` (line 165)
    queryNow,   \* history: the time.Now() reading of line 164
    listed,     \* history: events.Items as the service returned them
    items,      \* run: events.Items (sorted in place at line 171)
    i,          \* run: loop index, 1-based
    next,       \* run: `next`, as an index into items; 0 is nil
    nowSel,     \* history: the time.Now() reading of line 188 that set `next`
    alt,        \* run: `alt`, a sequence of tooltip lines
    stdout      \* the JSON objects written to standard output

vars == <<cmd, pc, err, clock, ticks, loc, tokenFile, stored, token, exToken,
          exErr, exchanges, prompts, refreshes, urlPrinted, fromTime, toTime, queryNow,
          listed, items, i, next, nowSel, alt, stdout>>

setupVars == <<token, exToken, exErr, exchanges, prompts, refreshes, urlPrinted, tokenFile>>
runVars == <<fromTime, toTime, queryNow, listed, items, i, next, nowSel, alt, stdout>>

(***************************************************************************)
(* Bounds of the model and constants of the program.                       *)
(***************************************************************************)
MaxEvents == 3
MaxTicks == 2

\* Minutes in time.Hour, and in the 5*time.Minute of line 188.
Hour == 60
Grace == 5

\* Clock readings at the start of a command: early morning, one minute before
\* the grace window of the 09:00Z events closes, one minute before the window
\* of the 10:00Z event closes (all on day 1 after the zero time).
NowInit == {1500, 1984, 2044}
Offsets == {0 - 120, 0, 120}

\* The events the service may return, by start.dateTime and summary:
\* 09:00Z A, 11:00+02:00 B (the same instant as 09:00Z), 10:00Z A, 10:00Z B
\* and 14:30Z A, all of day 1.
Events ==
    {[DateTime |-> [wall |-> 1980, off |-> 0], Summary |-> "A"],
     [DateTime |-> [wall |-> 2100, off |-> 120], Summary |-> "B"],
     [DateTime |-> [wall |-> 2040, off |-> 0], Summary |-> "A"],
     [DateTime |-> [wall |-> 2040, off |-> 0], Summary |-> "B"],
     [DateTime |-> [wall |-> 2310, off |-> 0], Summary |-> "A"]}

SeqsUpTo(S, n) == UNION {[1..k -> S] : k \in 0..n}

(***************************************************************************)
(* time.Time                                                               *)
(***************************************************************************)
\* time.Parse(time.RFC3339, s): the instant and the zone the string names.
Parse(dt) == [instant |-> dt.wall - dt.off, off |-> dt.off]

\* t.Before(u)
Before(t, u) == t.instant < u.instant

\* t.Add(d)
Add(t, d) == [instant |-> t.instant + d, off |-> t.off]

\* t.Format("15:04"): hour and minute of the wall clock in t's own zone.
Format1504(t) ==
    <<((t.instant + t.off) % (24 * Hour)) \div Hour, ((t.instant + t.off) % (24 * Hour)) % Hour>>

\* time.Now() as a time.Time in time.Local
Now == [instant |-> clock, off |-> loc]

\* t.Truncate(d): rounds the absolute time since the zero time down to a
\* multiple of d; the zone of t plays no part.
Truncate(t, d) == [instant |-> t.instant - (t.instant % d), off |-> t.off]

(***************************************************************************)
(* oauth2.Token                                                            *)
(***************************************************************************)
NilToken == [nil |-> TRUE, AccessToken |-> "", RefreshToken |-> "", Expiry |-> 0]
EmptyToken == [nil |-> FALSE, AccessToken |-> "", RefreshToken |-> "", Expiry |-> 0]
Tok(a, r, e) == [nil |-> FALSE, AccessToken |-> a, RefreshToken |-> r, Expiry |-> e]

\* (*Token).Valid(): non-nil, has an access token and is not expired.  A zero
\* Expiry never expires; otherwise the token is expired when Expiry - 10s is
\* before now, which for whole minutes is Expiry <= now.
Valid(t, now) == /\ ~t.nil
                 /\ t.AccessToken # ""
                 /\ ~(t.Expiry # 0 /\ t.Expiry <= now)

NoFile == [exists |-> FALSE, json |-> NilToken]
File(t) == [exists |-> TRUE, json |-> t]

\* token.json before the command: missing, or a token with or without a
\* refresh token whose expiry is long past or far ahead.
StoredFiles == {NoFile} \cup {File(Tok("stored", r, e)) : r \in {"", "rt"}, e \in {1000, 5000}}

RunFiles == {NoFile, File(Tok("stored", "rt", 5000))}

\* readToken: (t, err).  A missing file gives the empty token and an error;
\* the content `null` unmarshals into the empty token without error.
readToken(file) ==
    IF ~file.exists THEN [t |-> EmptyToken, err |-> "ErrToken"]
    ELSE IF file.json.nil THEN [t |-> EmptyToken, err |-> "nil"]
    ELSE [t |-> file.json, err |-> "nil"]

(***************************************************************************)
(* Initial state                                                           *)
(***************************************************************************)
\* run is started in every zone of Offsets, with token.json missing or holding
\* a usable token; setup, which never looks at the zone, is started with every
\* content of token.json.
Init ==
    /\ \/ cmd = "run" /\ loc \in Offsets /\ tokenFile \in RunFiles
       \/ cmd = "setup" /\ loc = 0 /\ tokenFile \in StoredFiles
    /\ pc = "readCredentials"
    /\ err = "nil"
    /\ clock \in NowInit
    /\ ticks = 0
    /\ stored = tokenFile
    /\ token = NilToken
    /\ exToken = NilToken
    /\ exErr = "nil"
    /\ exchanges = 0
    /\ prompts = 0
    /\ refreshes = 0
    /\ urlPrinted = FALSE
    /\ fromTime = 0
    /\ toTime = 0
    /\ queryNow = 0
    /\ listed = <<>>
    /\ items = <<>>
    /\ i = 0
    /\ next = 0
    /\ nowSel = 0
    /\ alt = <<>>
    /\ stdout = <<>>

Terminal == {"returned", "panicked", "fatal"}

\* The positions whose next step reads the clock (time.Now(), Token.Valid()).
ClockReaders == {"listEvents", "loop", "expire", "needCode"}

\* The wall clock advances while the command runs.  Only the readings taken
\* are observable, so the clock moves right before a step that reads it.
Tick ==
    /\ pc \in ClockReaders
    /\ ticks < MaxTicks
    /\ clock' = clock + 1
    /\ ticks' = ticks + 1
    /\ UNCHANGED <<cmd, pc, err, loc, stored>>
    /\ UNCHANGED setupVars
    /\ UNCHANGED runVars

\* return err
Return(e) == pc' = "returned" /\ err' = e

(***************************************************************************)
(* readCredentials, as called first by run and by setup                    *)
(***************************************************************************)
ReadCredentials ==
    /\ pc = "readCredentials"
    /\ \E outcome \in {"ok", "unreadable", "unparseable"} :
          \/ outcome = "ok" /\ pc' = "readToken" /\ err' = err
          \/ outcome = "unreadable" /\ Return("ErrCredentials")
          \/ outcome = "unparseable" /\ pc' = "fatal" /\ err' = err
    /\ UNCHANGED <<cmd, clock, ticks, loc, stored>>
    /\ UNCHANGED setupVars
    /\ UNCHANGED runVars

(***************************************************************************)
(* run                                                                     *)
(***************************************************************************)
\* Less with its arguments exchanged.
LessReversed(a, b) == Before(Parse(b.DateTime), Parse(a.DateTime))

\* The less function handed to sort.Slice (lines 171-175), on two elements.
Less(a, b) == Before(Parse(a.DateTime), Parse(b.DateTime))

Perms(n) == {p \in [1..n -> 1..n] : \A a, b \in 1..n : a # b => p[a] # p[b]}

\* sort.Slice(s, less): "The sort is not guaranteed to be stable": every
\* rearrangement of s in which no element is less than one before it.
SortSlice(s) ==
    {[k \in 1..Len(s) |-> s[p[k]]] :
        p \in {q \in Perms(Len(s)) :
                 \A a, b \in 1..Len(s) : a < b => ~Less(s[q[b]], s[q[a]])}}

\* fmt.Sprintf("%s %s", start.Format("15:04"), summary); the tooltip line is
\* the same text followed by a newline.
Line(start, summary) == <<Format1504(start)[1], Format1504(start)[2], summary>>

\* BarItem; Text is a line, or <<>> for the empty string; Tooltip is the
\* sequence of its newline-terminated lines.
BarItem(text, tooltip) == [Text |-> text, Tooltip |-> tooltip]

\* Qualifies with a comparison that is not strict.
QualifiesInclusive(now, start) == ~Before(Add(start, Grace), now)

\* time.Now().Before(start.Add(5*time.Minute)) (line 188)
Qualifies(now, start) == Before(now, Add(start, Grace))

\* IsEmpty without the test.
IsEmptyNever(s) == FALSE

\* len(events.Items) == 0 (line 178)
IsEmpty(s) == Len(s) = 0

\* readToken and its error check (lines 154-157)
RunReadToken ==
    /\ cmd = "run"
    /\ pc = "readToken"
    /\ IF readToken(tokenFile).err # "nil"
         THEN Return(readToken(tokenFile).err)
         ELSE pc' = "newService" /\ err' = err
    /\ UNCHANGED <<cmd, clock, ticks, loc, stored>>
    /\ UNCHANGED setupVars
    /\ UNCHANGED runVars

\* calendar.NewService (lines 159-162)
RunNewService ==
    /\ cmd = "run"
    /\ pc = "newService"
    /\ \E ok \in BOOLEAN :
          IF ok THEN pc' = "listEvents" /\ err' = err
                ELSE Return("ErrService")
    /\ UNCHANGED <<cmd, clock, ticks, loc, stored>>
    /\ UNCHANGED setupVars
    /\ UNCHANGED runVars

\* The events the service may answer with: at most MaxEvents events, in any
\* order, each starting before TimeMax.
Answers(timeMax) ==
    SeqsUpTo({e \in Events : Before(Parse(e.DateTime), timeMax)}, MaxEvents)

\* from, to and the Events.List call (lines 164-169)
RunListEvents ==
    /\ cmd = "run"
    /\ pc = "listEvents"
    /\ LET f == Truncate(Now, Hour * 24)
           t == Add(f, Hour * 24)
       IN  /\ queryNow' = clock
           /\ fromTime' = f
           /\ toTime' = t
           /\ \E ok \in BOOLEAN :
                 IF ok
                   THEN /\ \E evs \in Answers(t) : listed' = evs /\ items' = evs
                        /\ pc' = "sort"
                        /\ err' = err
                   ELSE /\ Return("ErrList")
                        /\ UNCHANGED <<listed, items>>
    /\ UNCHANGED <<cmd, clock, ticks, loc, stored, i, next, nowSel, alt, stdout>>
    /\ UNCHANGED setupVars

\* sort.Slice(events.Items, ...) (lines 171-175)
RunSort ==
    /\ cmd = "run"
    /\ pc = "sort"
    /\ items' \in SortSlice(items)
    /\ pc' = "checkEmpty"
    /\ UNCHANGED <<cmd, err, clock, ticks, loc, stored>>
    /\ UNCHANGED <<fromTime, toTime, queryNow, listed, i, next, nowSel, alt, stdout>>
    /\ UNCHANGED setupVars

\* RunEncodeEmpty without its return: the object is written and control
\* falls through to the loop.
RunEncodeEmptyNoReturn ==
    /\ cmd = "run"
    /\ pc = "checkEmpty"
    /\ Len(items) = 0
    /\ stdout' = Append(stdout, [Text |-> <<>>, Tooltip |-> <<>>])
    /\ next' = 0
    /\ alt' = <<>>
    /\ i' = 1
    /\ pc' = "loop"
    /\ UNCHANGED <<cmd, err, clock, ticks, loc, stored>>
    /\ UNCHANGED <<fromTime, toTime, queryNow, listed, items, nowSel>>
    /\ UNCHANGED setupVars

\* The empty case (lines 177-182): encode BarItem{Text: ""} and return.
RunEncodeEmpty ==
    /\ cmd = "run"
    /\ pc = "checkEmpty"
    /\ IsEmpty(items)
    /\ stdout' = Append(stdout, BarItem(<<>>, <<>>))
    /\ Return("nil")
    /\ UNCHANGED <<cmd, clock, ticks, loc, stored>>
    /\ UNCHANGED <<fromTime, toTime, queryNow, listed, items, i, next, nowSel, alt>>
    /\ UNCHANGED setupVars

\* The declarations before the loop (lines 184-186).
RunEnterLoop ==
    /\ cmd = "run"
    /\ pc = "checkEmpty"
    /\ ~IsEmpty(items)
    /\ next' = 0
    /\ alt' = <<>>
    /\ i' = 1
    /\ pc' = "loop"
    /\ UNCHANGED <<cmd, err, clock, ticks, loc, stored>>
    /\ UNCHANGED <<fromTime, toTime, queryNow, listed, items, nowSel, stdout>>
    /\ UNCHANGED setupVars

\* One iteration of the loop (lines 186-193).
RunLoopStep ==
    /\ cmd = "run"
    /\ pc = "loop"
    /\ i <= Len(items)
    /\ IF next = 0 /\ Qualifies(Now, Parse(items[i].DateTime))
         THEN next' = i /\ nowSel' = clock
         ELSE UNCHANGED <<next, nowSel>>
    /\ alt' = Append(alt, Line(Parse(items[i].DateTime), items[i].Summary))
    /\ i' = i + 1
    /\ UNCHANGED <<cmd, pc, err, clock, ticks, loc, stored>>
    /\ UNCHANGED <<fromTime, toTime, queryNow, listed, items, stdout>>
    /\ UNCHANGED setupVars

\* After the loop (lines 195-199): next.Start dereferences next; with next
\* nil the program panics before anything is encoded.
RunEmit ==
    /\ cmd = "run"
    /\ pc = "loop"
    /\ i > Len(items)
    /\ IF next = 0
         THEN /\ pc' = "panicked"
              /\ UNCHANGED <<err, stdout>>
         ELSE /\ stdout' = Append(stdout,
                     BarItem(Line(Parse(items[next].DateTime), items[next].Summary), alt))
              /\ Return("nil")
    /\ UNCHANGED <<cmd, clock, ticks, loc, stored>>
    /\ UNCHANGED <<fromTime, toTime, queryNow, listed, items, i, next, nowSel, alt>>
    /\ UNCHANGED setupVars

run ==
    \/ RunReadToken
    \/ RunNewService
    \/ RunListEvents
    \/ RunSort
    \/ RunEncodeEmpty
    \/ RunEnterLoop
    \/ RunLoopStep
    \/ RunEmit

(***************************************************************************)
(* setup                                                                   *)
(***************************************************************************)
\* token, _ := readToken(configDir) (line 78): the error is dropped.
SetupReadToken ==
    /\ cmd = "setup"
    /\ pc = "readToken"
    /\ token' = readToken(tokenFile).t
    /\ pc' = "expire"
    /\ UNCHANGED <<cmd, err, clock, ticks, loc, stored>>
    /\ UNCHANGED <<exToken, exErr, exchanges, prompts, refreshes, urlPrinted, tokenFile>>
    /\ UNCHANGED runVars

\* token.Expiry = time.Now().Add(-time.Hour) (line 80)
Expire(t, now) == [t EXCEPT !.Expiry = now - Hour]

\* Lines 80-83: the expiry is overwritten, then the token is tested.
SetupCheckToken ==
    /\ cmd = "setup"
    /\ pc = "expire"
    /\ token' = Expire(token, clock)
    /\ IF ~Valid(token', clock)
         THEN /\ pc' = IF token'.RefreshToken # "" THEN "refresh" ELSE "needCode"
              /\ err' = err
         ELSE Return("nil")
    /\ UNCHANGED <<cmd, clock, ticks, loc, stored>>
    /\ UNCHANGED <<exToken, exErr, exchanges, prompts, refreshes, urlPrinted, tokenFile>>
    /\ UNCHANGED runVars

\* config.TokenSource(ctx, token).Token() (lines 84-87): the token is not
\* valid, so the source asks the token endpoint for a new one; a failure is
\* printed and leaves token nil.
SetupRefresh ==
    /\ cmd = "setup"
    /\ pc = "refresh"
    /\ refreshes' = refreshes + 1
    /\ \E ok \in BOOLEAN :
          token' = IF ok THEN Tok("refreshed", token.RefreshToken, clock + Hour)
                         ELSE NilToken
    /\ pc' = "needCode"
    /\ UNCHANGED <<cmd, err, clock, ticks, loc, stored>>
    /\ UNCHANGED <<exToken, exErr, exchanges, prompts, urlPrinted, tokenFile>>
    /\ UNCHANGED runVars

\* Lines 89-90: the second test, and the authorization URL.
SetupCheckRefreshed ==
    /\ cmd = "setup"
    /\ pc = "needCode"
    /\ IF ~Valid(token, clock)
         THEN /\ urlPrinted' = TRUE
              /\ pc' = "scan"
              /\ err' = err
         ELSE /\ Return("nil")
              /\ UNCHANGED urlPrinted
    /\ UNCHANGED <<cmd, clock, ticks, loc, stored>>
    /\ UNCHANGED <<token, exToken, exErr, exchanges, prompts, refreshes, tokenFile>>
    /\ UNCHANGED runVars

\* fmt.Scan(&authCode) (lines 91-94)
SetupScanCode ==
    /\ cmd = "setup"
    /\ pc = "scan"
    /\ prompts' = prompts + 1
    /\ \E ok \in BOOLEAN :
          IF ok THEN pc' = "exchange" /\ err' = err
                ELSE Return("ErrScan")
    /\ UNCHANGED <<cmd, clock, ticks, loc, stored>>
    /\ UNCHANGED <<token, exToken, exErr, exchanges, refreshes, urlPrinted, tokenFile>>
    /\ UNCHANGED runVars

\* token, err := config.Exchange(ctx, authCode) (lines 95-96): a failed
\* exchange returns a nil token and an error.
SetupExchange ==
    /\ cmd = "setup"
    /\ pc = "exchange"
    /\ exchanges' = exchanges + 1
    /\ \E ok \in BOOLEAN :
          IF ok THEN /\ exToken' = Tok("exchanged", "rt", clock + Hour)
                     /\ exErr' = "nil"
                     /\ pc' = "write"
                ELSE /\ exToken' = NilToken
                     /\ exErr' = "ErrExchange"
                     /\ pc' = "rescan"
    /\ UNCHANGED <<cmd, err, clock, ticks, loc, stored>>
    /\ UNCHANGED <<token, prompts, refreshes, urlPrinted, tokenFile>>
    /\ UNCHANGED runVars

\* The branch taken after a failed exchange (lines 96-100): a second
\* fmt.Scan(&authCode); control then falls through to line 101.
SetupRescan ==
    /\ cmd = "setup"
    /\ pc = "rescan"
    /\ prompts' = prompts + 1
    /\ \E ok \in BOOLEAN :
          IF ok THEN pc' = "write" /\ err' = err
                ELSE Return("ErrScan")
    /\ UNCHANGED <<cmd, clock, ticks, loc, stored>>
    /\ UNCHANGED <<token, exToken, exErr, exchanges, refreshes, urlPrinted, tokenFile>>
    /\ UNCHANGED runVars

\* json.Marshal(token) and ioutil.WriteFile (lines 101-108): the inner token
\* is written, as `null` when it is nil; a file that cannot be opened for
\* writing keeps its content.
SetupWriteToken ==
    /\ cmd = "setup"
    /\ pc = "write"
    /\ \E ok \in BOOLEAN :
          IF ok THEN tokenFile' = File(exToken) /\ Return("nil")
                ELSE UNCHANGED tokenFile /\ Return("ErrWrite")
    /\ UNCHANGED <<cmd, clock, ticks, loc, stored>>
    /\ UNCHANGED <<token, exToken, exErr, exchanges, prompts, refreshes, urlPrinted>>
    /\ UNCHANGED runVars

setup ==
    \/ SetupReadToken
    \/ SetupCheckToken
    \/ SetupRefresh
    \/ SetupCheckRefreshed
    \/ SetupScanCode
    \/ SetupExchange
    \/ SetupRescan
    \/ SetupWriteToken

Next ==
    \/ Tick
    \/ ReadCredentials
    \/ run
    \/ setup

Spec == Init /\ [][Next]_vars

(***************************************************************************)
(* Properties                                                              *)
(***************************************************************************)
\* The instant an event starts, read off its start.dateTime.
Inst(e) == e.DateTime.wall - e.DateTime.off

\* "HH:MM summary" of an event, read off the wall clock of its start.dateTime.
HHMM(e) == <<(e.DateTime.wall % 1440) \div 60, (e.DateTime.wall % 1440) % 60, e.Summary>>

Count(s, e) == Cardinality({k \in DOMAIN s : s[k] = e})

\* run returned nil: every step up to the encoder succeeded.
RunSucceeded == cmd = "run" /\ pc = "returned" /\ err = "nil"

\* run ended after the service had answered with a list.
RunEndedAfterListing == cmd = "run" /\ (pc = "panicked" \/ (pc = "returned" /\ err = "nil"))

\* C1: in run, the event used for the output text is the first event of the
\* sorted list whose start satisfies now < start + 5 minutes, now being the
\* clock reading of the iteration that selects it: the selected event
\* satisfies the strict comparison, no event before it in the list does, the
\* list is the service's answer in ascending order of start, and as long as
\* nothing is selected no event already examined satisfies it.
C1_NextIsFirstQualifying ==
    cmd = "run" =>
      /\ next # 0 =>
           /\ next \in 1..Len(items)
           /\ nowSel < Inst(items[next]) + 5
           /\ \A k \in 1..(next - 1) : ~(nowSel < Inst(items[k]) + 5)
           /\ \A k \in 1..(Len(items) - 1) : Inst(items[k]) <= Inst(items[k + 1])
           /\ \A e \in Events : Count(items, e) = Count(listed, e)
           /\ pc = "returned" => stdout = <<[Text |-> HHMM(items[next]), Tooltip |-> alt]>>
      /\ (next = 0 /\ pc \in {"loop", "panicked"}) =>
           \A k \in 1..(i - 1) : ~(clock < Inst(items[k]) + 5)

\* C1 witness: run printed the second event of the list, which started 4
\* minutes before the reading, after passing over an earlier one.
C1_Witness ==
    /\ RunSucceeded
    /\ next = 2
    /\ nowSel = Inst(items[2]) + 4
    /\ Len(stdout) = 1

\* The k-th of a list of events with distinct starts, in ascending order.
Asc(s, k) ==
    s[CHOOSE j \in DOMAIN s : Cardinality({m \in DOMAIN s : Inst(s[m]) < Inst(s[j])}) = k - 1]

DistinctStarts(s) == \A a, b \in DOMAIN s : a # b => Inst(s[a]) # Inst(s[b])

\* C4: for a non-empty answer with distinct start times, the tooltip run
\* prints has exactly one "HH:MM summary" line per event of the answer, in
\* ascending order of start time.
C4_TooltipAscending ==
    (RunSucceeded /\ Len(listed) > 0 /\ DistinctStarts(listed)) =>
      /\ Len(stdout) = 1
      /\ stdout[1].Tooltip = [k \in 1..Len(listed) |-> HHMM(Asc(listed, k))]

\* C4 witness: three events with distinct starts, answered out of order, the
\* selected one not the first.
C4_Witness ==
    /\ RunSucceeded
    /\ Len(listed) = 3
    /\ DistinctStarts(listed)
    /\ Inst(listed[1]) > Inst(listed[2])
    /\ next = 2
    /\ Len(stdout[1].Tooltip) = 3

\* C5: run has written exactly one JSON object when it has returned nil, and
\* none in every other state: while it runs, and when it ended with an error,
\* a fatal log or a panic.
C5_OneObjectOnSuccessOnly ==
    cmd = "run" => Len(stdout) = (IF pc = "returned" /\ err = "nil" THEN 1 ELSE 0)

\* C5 witness: run failed at the event selection, having written nothing.
C5_Witness ==
    /\ cmd = "run"
    /\ pc = "panicked"
    /\ Len(listed) > 0
    /\ stdout = <<>>

\* C9: when the service answers with an empty list, run writes a BarItem with
\* empty text and empty tooltip, returns nil and never enters the selection
\* loop.
C9_EmptyList ==
    (RunEndedAfterListing /\ listed = <<>>) =>
      /\ pc = "returned"
      /\ err = "nil"
      /\ stdout = <<[Text |-> <<>>, Tooltip |-> <<>>]>>
      /\ i = 0
      /\ next = 0

\* C9 witness: run returned nil on an empty answer.
C9_Witness ==
    /\ RunSucceeded
    /\ listed = <<>>
    /\ Len(stdout) = 1

\* C2: when the answer is non-empty and no event satisfies
\* now < start + 5 minutes, run returns nil and writes a BarItem with empty
\* text whose tooltip lists every event.
C2_NoSelectionPrintsTooltip ==
    (/\ RunEndedAfterListing
     /\ Len(listed) > 0
     /\ \A k \in DOMAIN listed : ~(queryNow < Inst(listed[k]) + 5)) =>
      /\ pc = "returned"
      /\ err = "nil"
      /\ Len(stdout) = 1
      /\ stdout[1].Text = <<>>
      /\ Len(stdout[1].Tooltip) = Len(listed)

\* The stable ascending order of a list of events: element j goes after the
\* elements that start earlier and the earlier elements that start with it.
Rank(s, j) ==
    1 + Cardinality({m \in DOMAIN s :
            \/ Inst(s[m]) < Inst(s[j])
            \/ Inst(s[m]) = Inst(s[j]) /\ m < j})

StableSorted(s) == [p \in 1..Len(s) |-> s[CHOOSE j \in DOMAIN s : Rank(s, j) = p]]

FirstQualifying(s, now) ==
    CHOOSE k \in DOMAIN s :
        /\ now < Inst(s[k]) + 5
        /\ \A m \in 1..(k - 1) : ~(now < Inst(s[m]) + 5)

\* C3: events with the same start keep the order of the answer in the tooltip
\* (the tooltip is the stable ascending order of the answer), and the event
\* printed as text is the first qualifying one of that order.
C3_StableOrder ==
    (RunSucceeded /\ Len(listed) > 0) =>
      /\ stdout[1].Tooltip = [k \in 1..Len(listed) |-> HHMM(StableSorted(listed)[k])]
      /\ stdout[1].Text =
             HHMM(StableSorted(listed)[FirstQualifying(StableSorted(listed), nowSel)])

\* C6: a setup that went through the code flow has exchanged twice after two
\* prompts (the first exchange having failed) and once after one prompt.
C6_ExchangeRetriedOnce ==
    (cmd = "setup" /\ pc = "returned" /\ err = "nil" /\ prompts > 0) =>
      \/ prompts = 2 /\ exchanges = 2
      \/ prompts = 1 /\ exchanges = 1 /\ exErr = "nil"

\* C7: whenever setup has written token.json, it holds the token of a
\* successful exchange, never null.
C7_WritesExchangedToken ==
    (cmd = "setup" /\ tokenFile # stored) =>
      /\ tokenFile.exists
      /\ ~tokenFile.json.nil
      /\ tokenFile.json.AccessToken = "exchanged"
      /\ exErr = "nil"

\* C8: when token.json holds a token that is present and not expired, setup
\* (its credentials readable) returns nil without a refresh, a prompt, the
\* authorization URL, an exchange or a change of token.json.
C8_ValidTokenIsLeftAlone ==
    (cmd = "setup" /\ stored.exists /\ Valid(stored.json, clock)) =>
      /\ refreshes = 0
      /\ exchanges = 0
      /\ prompts = 0
      /\ ~urlPrinted
      /\ tokenFile = stored
      /\ (pc = "returned" /\ err # "ErrCredentials") => err = "nil"

\* 00:00 of the local day that holds instant n in the zone with offset off.
LocalMidnight(n, off) == ((n + off) - ((n + off) % 1440)) - off

\* C10: the range run queries starts at 00:00 of the current local day, ends
\* exactly 24 hours later and holds the current instant.
C10_LocalDayWindow ==
    (cmd = "run" /\ queryNow # 0) =>
      /\ fromTime.instant = LocalMidnight(queryNow, loc)
      /\ toTime.instant = fromTime.instant + 1440
      /\ fromTime.instant <= queryNow
      /\ queryNow < toTime.instant

====
